---- MODULE Spec2Model ----
(***************************************************************************)
(* WRICEF tracker analytics (wricef_visualizer.py): the data-preparation   *)
(* pipeline load_data and the dashboard script main that consumes its      *)
(* result.                                                                 *)
(*                                                                         *)
(* A cell of the spreadsheet is a tagged value [k, v]:                     *)
(*   "nan" an empty cell (NaN), "nat" an absent timestamp (NaT),           *)
(*   "str" a text cell, "num" a number, "ts" a timestamp counted in ticks  *)
(*   of half a day since 2024-01-01 00:00.                                 *)
(* A data frame is [cols, rows]: the set of column names and the sequence  *)
(* of rows, each row a function from cols to cells.                        *)
(***************************************************************************)
EXTENDS Integers, Sequences, FiniteSets, TLC

VARIABLES source, cache, heap, df, pc, reported, kpi, shown, runs

vars == <<source, cache, heap, df, pc, reported, kpi, shown, runs>>

\* ------------------------------------------------------------------ bounds

\* Longest table of the sampled multi-row inputs.
MaxRows == 2

\* Number of times the script is run (first run plus reruns).
MaxRuns == 2

\* ------------------------------------------------------------------- cells

NaN == [k |-> "nan", v |-> 0]

NaT == [k |-> "nat", v |-> 0]

Text(s) == [k |-> "str", v |-> s]

Num(n) == [k |-> "num", v |-> n]

Ts(t) == [k |-> "ts", v |-> t]

\* pandas isna(): NaN and NaT are the missing values.
IsNa(c) == c.k \in {"nan", "nat"}

\* Resolution of the modelled timestamps: ticks per day of Timedelta.days.
TicksPerDay == 2

Digit == <<"0", "1", "2", "3", "4", "5", "6", "7", "8", "9">>

SmallInts == -9 .. 9

\* str(n) for the one-digit integers of the model.
IntText(n) == IF n < 0 THEN "-" \o Digit[1 - n] ELSE Digit[n + 1]

\* The calendar dates the model writes as text, as ticks since 2024-01-01.
DateText == [s \in {"2024-01-01", "2024-01-10"} |->
               IF s = "2024-01-01" THEN 0 ELSE 9 * TicksPerDay]

\* Mutant of to_datetime: errors='ignore', an unparsable text is left as it is.
to_datetime_ignore(c) ==
    CASE c.k = "ts" -> c
      [] c.k = "str" -> IF c.v \in DOMAIN DateText THEN Ts(DateText[c.v]) ELSE c
      [] c.k \in {"nan", "nat"} -> NaT

\* pd.to_datetime(value, errors='coerce') on one value: a timestamp stays, a
\* text that is a date is parsed, anything else becomes NaT.
to_datetime(c) ==
    CASE c.k = "ts" -> c
      [] c.k = "str" -> IF c.v \in DOMAIN DateText THEN Ts(DateText[c.v]) ELSE NaT
      [] c.k \in {"nan", "nat"} -> NaT

\* pd.to_numeric(value, errors='coerce') on one value: a number stays, a text
\* that spells a number is parsed, anything else becomes NaN.
to_numeric(c) ==
    CASE c.k = "num" -> c
      [] c.k = "str" -> IF \E n \in SmallInts : IntText(n) = c.v
                          THEN Num(CHOOSE n \in SmallInts : IntText(n) = c.v)
                          ELSE NaN
      [] c.k = "nan" -> NaN

\* Series.fillna(value) on one value.
fillna(c, value) == IF IsNa(c) THEN value ELSE c

\* Series.astype(str) on one value: str(value), 'nan' for a missing one.
astype_str(c) ==
    CASE c.k = "str" -> c
      [] c.k = "num" -> Text(IntText(c.v))
      [] c.k = "nan" -> Text("nan")

\* Series.abs() on one value.
abs(c) == IF c.v < 0 THEN Num(-c.v) ELSE c

\* Mutant of days_between: the difference in days rounded toward zero.
days_between_truncated(actual, planned) ==
    IF actual.k = "ts" /\ planned.k = "ts"
      THEN IF actual.v < planned.v
             THEN Num(-((planned.v - actual.v) \div TicksPerDay))
             ELSE Num((actual.v - planned.v) \div TicksPerDay)
      ELSE NaN

\* (actual - planned).dt.days on one pair: the days component of the
\* Timedelta (the floor of the difference in days), NaN when either is NaT.
days_between(actual, planned) ==
    IF actual.k = "ts" /\ planned.k = "ts"
      THEN Num((actual.v - planned.v) \div TicksPerDay)
      ELSE NaN

\* ------------------------------------------------------------------ frames

\* pd.DataFrame(): no rows, no columns.
EmptyFrame == [cols |-> {}, rows |-> <<>>]

\* len(df)
len(frame) == Len(frame.rows)

\* Mutant of empty: only the columns are counted (len(df.columns) == 0).
empty_no_columns(frame) == frame.cols = {}

\* df.empty: any axis of length 0.
empty(frame) == frame.cols = {} \/ Len(frame.rows) = 0

\* Mutant of Column: the series in reverse order (a misaligned index).
Column_reversed(frame, col) ==
    [i \in 1 .. Len(frame.rows) |-> frame.rows[Len(frame.rows) + 1 - i][col]]

\* df[col] as a Series (the caller has checked col in df.columns).
Column(frame, col) == [i \in 1 .. Len(frame.rows) |-> frame.rows[i][col]]

\* df[col] = series: the column is replaced, or added when new.
SetColumn(frame, col, series) ==
    [cols |-> frame.cols \cup {col},
     rows |-> [i \in 1 .. Len(frame.rows) |->
                 [c \in frame.cols \cup {col} |->
                    IF c = col THEN series[i] ELSE frame.rows[i][c]]]]

\* --------------------------------------------------------------- load_data

date_columns ==
    <<"FSD Planned Del Date", "FSD Recieved Date",
      "FSD Planned Walkthrough Date", "FSD Actual Walkthrough Date",
      "Planned FUT Date", "Revised FUT Date", "Actual FUT Date",
      "Dev Planned Delivery Date", "Dev Revised Delivery Date", "Dev Actual Delivery Date",
      "Dev Planned Start Date", "Dev Revised Start Date", "Dev Actual Start Date",
      "ABAP Planned Delivery Date", "ABAP Revised Delivery Date", "ABAP Actual Delivery Date">>

numeric_columns ==
    <<"ABAP Effort Forecast (hrs)", "ABAP Actual Effort (hrs)",
      "PI Effort Forecast (hrs)", "PI Actual Effort (hrs)", "FSI">>

categorical_columns ==
    <<"Implementation", "WRICEF Type", "Complexity", "Priority of Delivery",
      "Stage", "Functional Owner", "Dev Lead ", "ABAP Developer ", "FUT Status">>

Range(seq) == {seq[i] : i \in 1 .. Len(seq)}

\* df[col] = pd.to_datetime(df[col], errors='coerce')
coerce_date(frame, col) ==
    SetColumn(frame, col,
              [i \in 1 .. len(frame) |-> to_datetime(Column(frame, col)[i])])

\* Mutant of coerce_numeric: the fillna(0) is left out.
coerce_numeric_no_fill(frame, col) ==
    SetColumn(frame, col,
              [i \in 1 .. len(frame) |-> to_numeric(Column(frame, col)[i])])

\* df[col] = pd.to_numeric(df[col], errors='coerce').fillna(0)
coerce_numeric(frame, col) ==
    SetColumn(frame, col,
              [i \in 1 .. len(frame) |-> fillna(to_numeric(Column(frame, col)[i]), Num(0))])

\* Mutant of clean_categorical: the fillna('Unknown') is left out.
clean_categorical_no_fill(frame, col) ==
    SetColumn(frame, col,
              [i \in 1 .. len(frame) |-> astype_str(Column(frame, col)[i])])

\* df[col] = df[col].fillna('Unknown').astype(str)
clean_categorical(frame, col) ==
    SetColumn(frame, col,
              [i \in 1 .. len(frame) |->
                 astype_str(fillna(Column(frame, col)[i], Text("Unknown")))])

\* for col in date_columns: if col in df.columns: ...   (from position i on)
RECURSIVE convert_dates(_, _)
convert_dates(frame, i) ==
    IF i > Len(date_columns) THEN frame
    ELSE convert_dates(IF date_columns[i] \in frame.cols
                         THEN coerce_date(frame, date_columns[i])
                         ELSE frame,
                       i + 1)

\* for col in numeric_columns: if col in df.columns: ...
RECURSIVE convert_numerics(_, _)
convert_numerics(frame, i) ==
    IF i > Len(numeric_columns) THEN frame
    ELSE convert_numerics(IF numeric_columns[i] \in frame.cols
                            THEN coerce_numeric(frame, numeric_columns[i])
                            ELSE frame,
                          i + 1)

\* Mutant of clean_categoricals: every column that is neither a date nor a
\* numeric column is filled and made text (for col in df.columns).
clean_every_column(frame, i) ==
    [cols |-> frame.cols,
     rows |-> [j \in 1 .. len(frame) |->
                 [c \in frame.cols |->
                    IF c \in Range(date_columns) \cup Range(numeric_columns)
                      THEN frame.rows[j][c]
                      ELSE astype_str(fillna(frame.rows[j][c], Text("Unknown")))]]]

\* for col in categorical_columns: if col in df.columns: ...
RECURSIVE clean_categoricals(_, _)
clean_categoricals(frame, i) ==
    IF i > Len(categorical_columns) THEN frame
    ELSE clean_categoricals(IF categorical_columns[i] \in frame.cols
                              THEN clean_categorical(frame, categorical_columns[i])
                              ELSE frame,
                            i + 1)

\* The columns the derived metrics index with df[...], in the order read: a
\* column that is not in the frame raises KeyError there.
derived_reads ==
    <<"FSD Actual Walkthrough Date", "FSD Planned Del Date",
      "Dev Actual Delivery Date", "Dev Planned Delivery Date",
      "Actual FUT Date", "Planned FUT Date",
      "ABAP Actual Effort (hrs)", "ABAP Effort Forecast (hrs)">>

\* df[name] = (df[actual] - df[planned]).dt.days
duration(frame, name, actual, planned) ==
    SetColumn(frame, name,
              [i \in 1 .. len(frame) |->
                 days_between(Column(frame, actual)[i], Column(frame, planned)[i])])

\* df['ABAP Effort Variance'] = df['ABAP Actual Effort (hrs)'] - df['ABAP Effort Forecast (hrs)']
effort_variance(frame) ==
    SetColumn(frame, "ABAP Effort Variance",
              [i \in 1 .. len(frame) |->
                 Num(Column(frame, "ABAP Actual Effort (hrs)")[i].v
                     - Column(frame, "ABAP Effort Forecast (hrs)")[i].v)])

\* One value of df[name].fillna(0).abs() + 1
duration_safe_value(d) == Num(abs(fillna(d, Num(0))).v + 1)

\* df[safe] = df[name].fillna(0).abs() + 1
duration_safe(frame, safe, name) ==
    SetColumn(frame, safe,
              [i \in 1 .. len(frame) |-> duration_safe_value(Column(frame, name)[i])])

\* One value of df['ABAP Effort Forecast (hrs)'].fillna(0) + 1
effort_safe_value(e) == Num(fillna(e, Num(0)).v + 1)

\* df['ABAP Effort Safe'] = df['ABAP Effort Forecast (hrs)'].fillna(0) + 1
effort_safe(frame) ==
    SetColumn(frame, "ABAP Effort Safe",
              [i \in 1 .. len(frame) |->
                 effort_safe_value(Column(frame, "ABAP Effort Forecast (hrs)")[i])])

\* Lines 62-71, on a frame that holds every column of derived_reads.
derived_metrics(frame) ==
    LET d1 == duration(frame, "FSD Duration",
                       "FSD Actual Walkthrough Date", "FSD Planned Del Date")
        d2 == duration(d1, "DEV Duration",
                       "Dev Actual Delivery Date", "Dev Planned Delivery Date")
        d3 == duration(d2, "FUT Duration", "Actual FUT Date", "Planned FUT Date")
        d4 == effort_variance(d3)
        s1 == duration_safe(d4, "FSD Duration Safe", "FSD Duration")
        s2 == duration_safe(s1, "DEV Duration Safe", "DEV Duration")
        s3 == duration_safe(s2, "FUT Duration Safe", "FUT Duration")
    IN  effort_safe(s3)

\* The first column of derived_reads that the frame lacks (the KeyError's key).
first_missing(frame) ==
    derived_reads[CHOOSE i \in 1 .. Len(derived_reads) :
                    /\ derived_reads[i] \notin frame.cols
                    /\ \A j \in 1 .. i - 1 : derived_reads[j] \in frame.cols]

\* pd.read_excel(...): the workbook's table, or an exception when the file
\* cannot be opened or parsed.
read_excel(src) ==
    IF src.kind = "table"
      THEN [raised |-> FALSE, frame |-> src.frame, exc |-> ""]
      ELSE [raised |-> TRUE, frame |-> EmptyFrame, exc |-> src.kind]

\* Mutant of load_failed: the exception is swallowed without st.error.
load_failed_silent(exc) == [frame |-> EmptyFrame, elements |-> <<>>]

\* except Exception as e: st.error(...); return pd.DataFrame()
load_failed(exc) ==
    [frame |-> EmptyFrame, elements |-> <<[kind |-> "error", text |-> exc]>>]

\* load_data(): the returned frame and the st elements it emitted.
load_data(src) ==
    LET r == read_excel(src) IN
    IF r.raised THEN load_failed(r.exc)
    ELSE LET typed == clean_categoricals(
                         convert_numerics(convert_dates(r.frame, 1), 1), 1) IN
         IF Range(derived_reads) \subseteq typed.cols
           THEN [frame |-> derived_metrics(typed), elements |-> <<>>]
           ELSE load_failed(first_missing(typed))

\* ------------------------------------------------------------------ inputs

\* Columns of the workbook that load_data does not convert.
identity_columns == {"Development ID", "Project Name"}

SchemaColumns ==
    Range(date_columns) \cup Range(numeric_columns)
      \cup Range(categorical_columns) \cup identity_columns

ActualDateColumns ==
    {"FSD Actual Walkthrough Date", "Actual FUT Date", "Dev Actual Delivery Date",
     "Dev Actual Start Date", "ABAP Actual Delivery Date"}

ActualEffortColumns == {"ABAP Actual Effort (hrs)", "PI Actual Effort (hrs)"}

\* Cells a date column may hold: empty, unparsable text, a date as text, and a
\* timestamp with a time of day (2024-01-01 12:00).
DateCells == {NaN, Text("N/A"), Text("2024-01-01"), Text("2024-01-10"), Ts(1)}

\* Cells a numeric column may hold.
NumericCells == {NaN, Text("N/A"), Text("3"), Num(0), Num(3), Num(-2)}

ActualEffortCells == {NaN, Num(5)}

\* Cells a categorical column may hold.
CategoricalCells == {NaN, Text("06 - Dev Completed"), Num(7)}

\* A row is described by one cell per kind of column: p for the planned (and
\* other non-actual) dates, a for the actual dates, n for the forecast efforts
\* and FSI, m for the actual efforts, c for the categorical and identity
\* columns, x for every column outside the schema.
CellFor(col, spec) ==
    CASE col \in ActualDateColumns -> spec.a
      [] col \in Range(date_columns) \ ActualDateColumns -> spec.p
      [] col \in ActualEffortColumns -> spec.m
      [] col \in Range(numeric_columns) \ ActualEffortColumns -> spec.n
      [] col \in Range(categorical_columns) \cup identity_columns -> spec.c
      [] OTHER -> spec.x

MakeFrame(cols, specs) ==
    [cols |-> cols,
     rows |-> [i \in 1 .. Len(specs) |-> [c \in cols |-> CellFor(c, specs[i])]]]

\* Every combination of cells, for the one-row inputs.
AllRowSpecs ==
    [p : DateCells, a : DateCells, n : NumericCells, m : ActualEffortCells,
     c : CategoricalCells, x : {Text("note")}]

\* Three rows that differ in every column, for the multi-row inputs.
SampleRowSpecs ==
    {[p |-> Text("2024-01-01"), a |-> Text("2024-01-10"), n |-> Num(3), m |-> Num(5),
      c |-> Text("06 - Dev Completed"), x |-> Text("note")],
     [p |-> NaN, a |-> Text("2024-01-10"), n |-> Text("N/A"), m |-> NaN,
      c |-> NaN, x |-> NaN],
     [p |-> Text("2024-01-10"), a |-> Ts(1), n |-> Num(-2), m |-> Num(5),
      c |-> Num(7), x |-> Num(4)]}

SeqsUpTo(S, n) == UNION {[1 .. k -> S] : k \in 0 .. n}

\* Sets of column names outside the schema that a workbook may carry.
ExtraColumnChoices ==
    {{}, {"Remarks"}, {"FSD Duration"}, {"Remarks", "ABAP Effort Safe"}}

\* The workbooks of the model: one row of every combination of cells; up to
\* MaxRows sampled rows with extra columns; one sampled row with one schema
\* column missing.
InputFrames ==
    {MakeFrame(SchemaColumns, <<r>>) : r \in AllRowSpecs}
      \cup {MakeFrame(SchemaColumns \cup e, specs) :
              e \in ExtraColumnChoices, specs \in SeqsUpTo(SampleRowSpecs, MaxRows)}
      \cup {MakeFrame(SchemaColumns \ {c}, <<r>>) :
              c \in SchemaColumns, r \in SampleRowSpecs}

\* What 'WRICEF-Tracker-dump.xlsx' is: a workbook, or a file that cannot be
\* opened (missing) or parsed (not a workbook).
Sources ==
    {[kind |-> "table", frame |-> f] : f \in InputFrames}
      \cup {[kind |-> k, frame |-> EmptyFrame] : k \in {"FileNotFoundError", "BadZipFile"}}

\* ------------------------------------------------------------------- views

\* What a view leaves on the page: the charts and warnings it showed, and
\* whether it ended in an exception (KeyError or ValueError).
Ok(figs) == [raised |-> FALSE, figures |-> figs]

Raise == [raised |-> TRUE, figures |-> <<>>]

\* Two steps in sequence: the second runs only when the first did not raise.
Then(first, second) ==
    IF first.raised THEN first
    ELSE [raised |-> second.raised, figures |-> first.figures \o second.figures]

\* st.plotly_chart(fig) of a figure built from a frame.
Figure(name, frame) == [chart |-> name, cols |-> frame.cols, n |-> len(frame)]

\* st.warning(text)
Warning(text) == [chart |-> text, cols |-> {}, n |-> 0]

\* df.dropna(subset=...) as a value: the rows with no missing cell in subset.
dropna_rows(frame, subset) ==
    [cols |-> frame.cols,
     rows |-> SelectSeq(frame.rows, LAMBDA r : \A c \in subset : ~IsNa(r[c]))]

\* .head(30) of the timeline view.
TimelineHead == 30

head(frame, n) ==
    [cols |-> frame.cols,
     rows |-> SubSeq(frame.rows, 1, IF len(frame) < n THEN len(frame) ELSE n)]

\* A chart of df[col].value_counts(): KeyError when the column is missing.
counts_chart(frame, col, name) ==
    IF col \in frame.cols THEN Ok(<<Figure(name, [cols |-> {col}, rows |-> frame.rows])>>)
    ELSE Raise

\* A plotly express chart of a frame: ValueError when a named column is
\* missing, or when a marker size is negative.
px_chart(frame, reads, size, name) ==
    IF /\ reads \cup size \subseteq frame.cols
       /\ \A c \in size : \A i \in 1 .. len(frame) : frame.rows[i][c].v >= 0
      THEN Ok(<<Figure(name, frame)>>)
      ELSE Raise

\* if not data.empty: <chart> else: st.warning(text)
chart_or_warning(frame, reads, size, name, text) ==
    IF empty(frame) THEN Ok(<<Warning(text)>>) ELSE px_chart(frame, reads, size, name)

create_basic_charts(frame) ==
    Then(counts_chart(frame, "WRICEF Type", "WRICEF Implementation Types"),
    Then(counts_chart(frame, "Implementation", "Top 10 Implementations by Project Count"),
         counts_chart(frame, "Complexity", "Project Complexity Distribution")))

create_timeline_analysis(frame) ==
    LET timeline_df ==
            head(dropna_rows(frame, {"Dev Planned Delivery Date", "Dev Actual Delivery Date"}),
                 TimelineHead)
    IN  chart_or_warning(timeline_df,
                         {"Dev Planned Delivery Date", "Dev Actual Delivery Date",
                          "Development ID", "Implementation", "Project Name"},
                         {}, "Project Timeline: Development Planning to Completion",
                         "No timeline data available")

create_fsd_analysis(frame) ==
    LET fsd_data ==
            dropna_rows(frame, {"FSD Planned Del Date", "FSD Actual Walkthrough Date"})
        duration_data == dropna_rows(frame, {"FSD Duration"})
    IN  Then(chart_or_warning(fsd_data,
                              {"FSD Planned Del Date", "FSD Actual Walkthrough Date",
                               "Complexity", "Project Name"},
                              {"ABAP Effort Safe"},
                              "FSD Planned vs Actual Walkthrough Dates",
                              "No FSD timeline data available"),
             chart_or_warning(duration_data, {"Complexity", "FSD Duration"}, {},
                              "FSD Duration Distribution by Complexity",
                              "No FSD duration data available"))

create_fut_analysis(frame) ==
    LET fut_timeline == dropna_rows(frame, {"Planned FUT Date", "Actual FUT Date"})
    IN  Then(counts_chart(frame, "FUT Status", "FUT Status Distribution"),
             chart_or_warning(fut_timeline,
                              {"Planned FUT Date", "Actual FUT Date",
                               "Priority of Delivery", "Project Name"},
                              {"FUT Duration Safe"},
                              "FUT Planned vs Actual Dates",
                              "No FUT timeline data available"))

create_development_analysis(frame) ==
    LET dev_data == dropna_rows(frame, {"DEV Duration", "ABAP Effort Forecast (hrs)"})
    IN  Then(counts_chart(frame, "Stage", "Development Stage Distribution"),
             chart_or_warning(dev_data,
                              {"DEV Duration", "ABAP Effort Forecast (hrs)",
                               "WRICEF Type", "Project Name"},
                              {"DEV Duration Safe"},
                              "Development Duration vs ABAP Effort",
                              "No development duration data available"))

\* Mutant of dropna: the view works on df itself (abap_timeline = df).
dropna_alias(h, ref, subset) == [heap |-> h, ref |-> ref]

\* df.dropna(subset=...) on the heap of frames: the result is a new frame,
\* never the frame it was called on.
dropna(h, ref, subset) ==
    [heap |-> Append(h, dropna_rows(h[ref], subset)), ref |-> Len(h) + 1]

\* abap_timeline['ABAP Delivery Variance'] = (actual - planned).dt.days, written
\* through the reference abap_timeline.
add_delivery_variance(h, ref) ==
    [h EXCEPT ![ref] =
        SetColumn(@, "ABAP Delivery Variance",
                  [i \in 1 .. len(@) |->
                     days_between(@.rows[i]["ABAP Actual Delivery Date"],
                                  @.rows[i]["ABAP Planned Delivery Date"])])]

\* create_abap_analysis(df) on the heap h, df being the reference ref: what
\* it showed and the heap it leaves.
create_abap_analysis(h, ref) ==
    LET abap_data ==
            dropna_rows(h[ref], {"ABAP Effort Forecast (hrs)", "ABAP Actual Effort (hrs)"})
        effort == chart_or_warning(abap_data,
                                   {"ABAP Effort Forecast (hrs)", "ABAP Actual Effort (hrs)",
                                    "Complexity", "Project Name"},
                                   {}, "ABAP Effort: Forecast vs Actual",
                                   "No ABAP effort data available")
        subset == {"ABAP Planned Delivery Date", "ABAP Actual Delivery Date"}
    IN  IF effort.raised \/ ~(subset \subseteq h[ref].cols)
          THEN [out |-> Then(effort, Raise), heap |-> h]
          ELSE LET t == dropna(h, ref, subset)
                   abap_timeline == t.ref
               IN  IF empty(t.heap[abap_timeline])
                     THEN [out |-> Then(effort, Ok(<<Warning("No ABAP timeline data available")>>)),
                           heap |-> t.heap]
                     ELSE LET h2 == add_delivery_variance(t.heap, abap_timeline)
                          IN  [out |-> Then(effort,
                                            px_chart(h2[abap_timeline],
                                                     {"ABAP Delivery Variance", "Complexity"}, {},
                                                     "ABAP Delivery Variance Distribution (Days)")),
                               heap |-> h2]

create_team_analysis(frame) ==
    Then(counts_chart(frame, "Functional Owner", "Top 10 Functional Owners by Project Count"),
    Then(counts_chart(frame, "ABAP Developer ", "Top 10 ABAP Developers by Project Count"),
         IF {"Functional Owner", "Dev Lead "} \subseteq frame.cols
           THEN LET collab_data == dropna_rows(frame, {"Functional Owner", "Dev Lead "})
                IN  IF empty(collab_data) THEN Ok(<<>>)
                    ELSE Ok(<<Figure("Functional Owner - Dev Lead Collaboration Matrix",
                                     [cols |-> {"Functional Owner", "Dev Lead "},
                                      rows |-> collab_data.rows])>>)
           ELSE Raise))

\* The "Additional Insights" section of main.
additional_insights(frame) ==
    Then(IF {"Implementation", "ABAP Effort Variance", "FSD Duration", "Development ID"}
              \subseteq frame.cols
           THEN Ok(<<Figure("Implementation Performance Matrix",
                            [cols |-> {"ABAP Effort Variance", "FSD Duration", "Development ID"},
                             rows |-> frame.rows])>>)
           ELSE Raise,
         counts_chart(frame, "Priority of Delivery", "Priority Distribution"))

\* -------------------------------------------------------------------- main

NoKpi == [evaluated |-> FALSE, total_projects |-> 0, completed_projects |-> 0]

\* len(df[df['Stage'] == '06 - Dev Completed'])
completed(frame) ==
    Len(SelectSeq(frame.rows, LAMBDA r : r["Stage"] = Text("06 - Dev Completed")))

Init ==
    /\ source \in Sources
    /\ cache = <<>>
    /\ heap = <<>>
    /\ df = 0
    /\ pc = "start"
    /\ reported = <<>>
    /\ kpi = NoKpi
    /\ shown = <<>>
    /\ runs = 1

\* df = load_data(), through st.cache_data: the first call runs the function,
\* a later call returns a copy of the cached frame and replays its elements.
\* Then main's test of df.empty.
MainLoad ==
    /\ pc = "start"
    /\ LET r == IF cache = <<>> THEN load_data(source) ELSE cache[1] IN
         /\ cache' = <<r>>
         /\ heap' = <<r.frame>>
         /\ df' = 1
         /\ IF empty(r.frame)
              THEN /\ reported' = r.elements \o <<[kind |-> "warning", text |-> "No data loaded"]>>
                   /\ pc' = "done"
              ELSE /\ reported' = r.elements \o <<[kind |-> "success", text |-> "loaded"]>>
                   /\ pc' = "kpi"
    /\ UNCHANGED <<source, kpi, shown, runs>>

\* The "Key Performance Indicators" section of main: df['Stage'] raises
\* KeyError when the column is missing; kpi records the operands with which
\* completed_projects / total_projects is evaluated, which raises
\* ZeroDivisionError when total_projects is 0.
MainKpi ==
    /\ pc = "kpi"
    /\ IF "Stage" \in heap[df].cols
         THEN /\ kpi' = [evaluated |-> TRUE,
                         total_projects |-> len(heap[df]),
                         completed_projects |-> completed(heap[df])]
              /\ pc' = IF len(heap[df]) = 0 THEN "raised" ELSE "basic"
         ELSE /\ kpi' = kpi
              /\ pc' = "raised"
    /\ UNCHANGED <<source, cache, heap, df, reported, shown, runs>>

\* A view that only reads df: its charts go to the page, an exception ends the run.
ReadOnlyView(at, next, out) ==
    /\ pc = at
    /\ shown' = shown \o out.figures
    /\ pc' = IF out.raised THEN "raised" ELSE next
    /\ UNCHANGED <<source, cache, heap, df, reported, kpi, runs>>

BasicCharts == ReadOnlyView("basic", "timeline", create_basic_charts(heap[df]))

TimelineAnalysis == ReadOnlyView("timeline", "fsd", create_timeline_analysis(heap[df]))

FsdAnalysis == ReadOnlyView("fsd", "fut", create_fsd_analysis(heap[df]))

FutAnalysis == ReadOnlyView("fut", "dev", create_fut_analysis(heap[df]))

DevelopmentAnalysis == ReadOnlyView("dev", "abap", create_development_analysis(heap[df]))

\* create_abap_analysis(df): its local frames are dropped when it returns,
\* the frames main holds stay on the heap.
AbapAnalysis ==
    /\ pc = "abap"
    /\ LET r == create_abap_analysis(heap, df) IN
         /\ shown' = shown \o r.out.figures
         /\ pc' = IF r.out.raised THEN "raised" ELSE "team"
         /\ heap' = SubSeq(r.heap, 1, Len(heap))
    /\ UNCHANGED <<source, cache, df, reported, kpi, runs>>

TeamAnalysis == ReadOnlyView("team", "insights", create_team_analysis(heap[df]))

AdditionalInsights == ReadOnlyView("insights", "done", additional_insights(heap[df]))

\* Streamlit runs the script again (a widget changed, the page was reloaded):
\* the page is rebuilt, the cache of load_data is kept.
Rerun ==
    /\ pc \in {"done", "raised"}
    /\ runs < MaxRuns
    /\ runs' = runs + 1
    /\ pc' = "start"
    /\ heap' = <<>>
    /\ df' = 0
    /\ reported' = <<>>
    /\ shown' = <<>>
    /\ kpi' = NoKpi
    /\ UNCHANGED <<source, cache>>

Next ==
    \/ MainLoad
    \/ MainKpi
    \/ BasicCharts
    \/ TimelineAnalysis
    \/ FsdAnalysis
    \/ FutAnalysis
    \/ DevelopmentAnalysis
    \/ AbapAnalysis
    \/ TeamAnalysis
    \/ AdditionalInsights
    \/ Rerun

Spec == Init /\ [][Next]_vars

\* ------------------------------------------------------------------ claims

\* load_data has been called: its result is in the cache.
Called == cache # <<>>

\* The table load_data returned, and the workbook it read.
Returned == cache[1].frame

Input == source.frame

\* The call reported no error: the frame it returned is the prepared table.
Succeeded == Called /\ source.kind = "table" /\ cache[1].elements = <<>>

RowsOf(frame) == 1 .. len(frame)

ErrorsReported == Len(SelectSeq(reported, LAMBDA e : e.kind = "error"))

MalformedDate(c) == c.k = "str" /\ c.v \notin {"2024-01-01", "2024-01-10"}

MalformedNumber(c) == c.k = "str" /\ \A n \in SmallInts : IntText(n) # c.v

SafeColumns ==
    {"FSD Duration Safe", "DEV Duration Safe", "FUT Duration Safe", "ABAP Effort Safe"}

DerivedColumns ==
    {"FSD Duration", "DEV Duration", "FUT Duration", "ABAP Effort Variance"}
      \cup SafeColumns

\* The three duration pairs: duration, safe duration, actual date, planned date.
DurationPairs ==
    {<<"FSD Duration", "FSD Duration Safe",
       "FSD Actual Walkthrough Date", "FSD Planned Del Date">>,
     <<"DEV Duration", "DEV Duration Safe",
       "Dev Actual Delivery Date", "Dev Planned Delivery Date">>,
     <<"FUT Duration", "FUT Duration Safe", "Actual FUT Date", "Planned FUT Date">>}

\* C1 (as claimed): in every row of a table returned by a successful
\* load_data, each of the four safe sizing columns is >= 1. The code adds 1 to
\* the forecast effort without taking its absolute value, so a negative
\* forecast gives a safe value below 1.
C1_SafeAtLeastOne ==
    Succeeded =>
        \A i \in RowsOf(Returned) : \A c \in SafeColumns : Returned.rows[i][c].v >= 1

\* C2: when the workbook opens and holds every schema column, load_data
\* reports no error and returns every row, each malformed date cell as NaT and
\* each malformed numeric cell as 0.
C2_CellLevelTotality ==
    (Called /\ source.kind = "table" /\ SchemaColumns \subseteq Input.cols) =>
        /\ cache[1].elements = <<>>
        /\ len(Returned) = len(Input)
        /\ Input.cols \subseteq Returned.cols
        /\ \A i \in RowsOf(Input) :
             /\ \A c \in Range(date_columns) :
                  MalformedDate(Input.rows[i][c]) => Returned.rows[i][c] = NaT
             /\ \A c \in Range(numeric_columns) :
                  MalformedNumber(Input.rows[i][c]) => Returned.rows[i][c] = Num(0)

\* C2 witness: a load of a full-schema workbook whose row has a malformed date
\* and a malformed number.
C2_Witness ==
    /\ Called /\ source.kind = "table" /\ SchemaColumns \subseteq Input.cols
    /\ len(Input) = 1
    /\ Input.rows[1]["Planned FUT Date"] = Text("N/A")
    /\ Input.rows[1]["FSI"] = Text("N/A")
    /\ len(Returned) = 1

\* C3: when the file cannot be opened or parsed, the run reports exactly one
\* error, load_data returns the frame with no rows and no columns, and main
\* ends without an exception.
C3_LoadFailure ==
    (Called /\ source.kind # "table") =>
        /\ Returned = EmptyFrame
        /\ pc # "raised"
        /\ pc # "start" => (ErrorsReported = 1 /\ heap[df] = EmptyFrame)

\* C3 witness: the file is missing and main has returned.
C3_Witness ==
    /\ source.kind = "FileNotFoundError"
    /\ pc = "done"
    /\ ErrorsReported = 1

\* C4 (as claimed): a workbook that opens with at least one row is returned
\* prepared, with the same number of rows, whichever schema column is missing;
\* only a file that cannot be read gives the error and the empty result. The
\* code indexes eight columns without testing for them.
C4_SchemaTolerance ==
    (Called /\ source.kind = "table" /\ len(Input) >= 1) =>
        /\ cache[1].elements = <<>>
        /\ len(Returned) = len(Input)

\* C5 (as claimed): in every row of a successful load, each of the eleven
\* categorical fields the table holds is a text, "Unknown" when the source
\* cell was absent.
C5_ElevenCategoricalFields ==
    Succeeded =>
        \A i \in RowsOf(Returned) :
          \A c \in (Range(categorical_columns) \cup identity_columns) \cap Returned.cols :
            /\ Returned.rows[i][c].k = "str"
            /\ IsNa(Input.rows[i][c]) => Returned.rows[i][c] = Text("Unknown")

\* C5 (amended): in every row of a successful load, each of the nine columns
\* of categorical_columns the table holds is a text: the source text, the
\* source number written as text, or "Unknown" when the source cell was
\* absent; Development ID and Project Name keep the source cell as it is.
C5_NineCategoricalColumns ==
    Succeeded =>
        \A i \in RowsOf(Returned) :
          /\ \A c \in Range(categorical_columns) \cap Returned.cols :
               LET in == Input.rows[i][c]
                   out == Returned.rows[i][c]
               IN  /\ out.k = "str"
                   /\ IsNa(in) => out = Text("Unknown")
                   /\ in.k = "str" => out = in
                   /\ in.k = "num" => out.v = IntText(in.v)
          /\ \A c \in identity_columns \cap Returned.cols :
               Returned.rows[i][c] = Input.rows[i][c]

\* C5 witness: a successful load of a row whose Complexity and Development ID
\* are absent.
C5_Witness ==
    /\ Succeeded /\ len(Returned) >= 1
    /\ {"Complexity", "Development ID"} \subseteq Input.cols
    /\ Input.rows[1]["Complexity"] = NaN
    /\ Returned.rows[1]["Complexity"] = Text("Unknown")
    /\ Returned.rows[1]["Development ID"] = NaN

\* C6 (as claimed): in every row of a successful load, each of the five
\* numeric columns is a number >= 0, and 0 when the source cell was absent or
\* unparsable.
C6_NumericNonNegative ==
    Succeeded =>
        \A i \in RowsOf(Returned) :
          \A c \in Range(numeric_columns) \cap Returned.cols :
            /\ Returned.rows[i][c].k = "num"
            /\ Returned.rows[i][c].v >= 0
            /\ (IsNa(Input.rows[i][c]) \/ MalformedNumber(Input.rows[i][c]))
                 => Returned.rows[i][c].v = 0

\* C6 (amended): in every row of a successful load, each of the five numeric
\* columns the table holds is a number: 0 when the source cell was absent or
\* unparsable, otherwise the number the cell holds or spells, a negative one
\* included.
C6_NumericFilled ==
    Succeeded =>
        \A i \in RowsOf(Returned) :
          \A c \in Range(numeric_columns) \cap Returned.cols :
            LET in == Input.rows[i][c]
                out == Returned.rows[i][c]
            IN  /\ out.k = "num"
                /\ (IsNa(in) \/ MalformedNumber(in)) => out.v = 0
                /\ in.k = "num" => out.v = in.v
                /\ (in.k = "str" /\ ~MalformedNumber(in)) => IntText(out.v) = in.v

\* C6 witness: a successful load of a row with an unparsable forecast effort
\* and a row with a negative one.
C6_Witness ==
    /\ Succeeded
    /\ \E i \in RowsOf(Returned) :
         /\ Input.rows[i]["ABAP Effort Forecast (hrs)"] = Text("N/A")
         /\ Returned.rows[i]["ABAP Effort Forecast (hrs)"] = Num(0)
    /\ \E i \in RowsOf(Returned) :
         /\ Input.rows[i]["ABAP Effort Forecast (hrs)"] = Num(-2)
         /\ Returned.rows[i]["ABAP Effort Forecast (hrs)"] = Num(-2)

\* C7: for each duration pair and every row of a successful load, the
\* duration is the whole days of actual minus planned (the days d with
\* d days <= actual - planned < d + 1 days) when both dates are present, and
\* absent when a source date is absent or unparsable; the safe duration is
\* abs(duration) + 1, and 1 when the duration is absent; planned 2024-01-01 and
\* actual 2024-01-10 give 9 and 10.
C7_Durations ==
    Succeeded =>
        \A i \in RowsOf(Returned) : \A q \in DurationPairs :
          LET d == Returned.rows[i][q[1]]
              safe == Returned.rows[i][q[2]]
              actual == Returned.rows[i][q[3]]
              planned == Returned.rows[i][q[4]]
              absent(c) == IsNa(c) \/ MalformedDate(c)
          IN  /\ (absent(Input.rows[i][q[3]]) \/ absent(Input.rows[i][q[4]])) <=> d = NaN
              /\ d # NaN =>
                   /\ d.k = "num"
                   /\ d.v * TicksPerDay <= actual.v - planned.v
                   /\ actual.v - planned.v < (d.v + 1) * TicksPerDay
                   /\ safe = Num((IF d.v < 0 THEN -d.v ELSE d.v) + 1)
              /\ d = NaN => safe = Num(1)
              /\ (Input.rows[i][q[4]] = Text("2024-01-01")
                    /\ Input.rows[i][q[3]] = Text("2024-01-10"))
                   => (d = Num(9) /\ safe = Num(10))

\* C7 witness: a successful load of planned 2024-01-01 and actual 2024-01-10.
C7_Witness ==
    /\ Succeeded /\ len(Returned) >= 1
    /\ Input.rows[1]["Dev Planned Delivery Date"] = Text("2024-01-01")
    /\ Input.rows[1]["Dev Actual Delivery Date"] = Text("2024-01-10")
    /\ Returned.rows[1]["DEV Duration"] = Num(9)
    /\ Returned.rows[1]["DEV Duration Safe"] = Num(10)

\* The workbook that holds row i of the input alone.
RowAlone(i) ==
    [kind |-> "table", frame |-> [cols |-> Input.cols, rows |-> <<Input.rows[i]>>]]

\* C8: a successful load returns as many rows as the workbook has, and row i
\* of the result is what load_data makes of row i of the workbook alone.
C8_RowsPreserved ==
    Succeeded =>
        /\ len(Returned) = len(Input)
        /\ \A i \in RowsOf(Input) :
             Returned.rows[i] = load_data(RowAlone(i)).frame.rows[1]

\* C8 witness: a successful load of two rows that differ.
C8_Witness ==
    /\ Succeeded
    /\ len(Input) >= 2
    /\ Input.rows[1] # Input.rows[2]
    /\ Returned.rows[1] # Returned.rows[2]

\* C9 (as claimed): after a successful load, every column of the workbook
\* outside the schema is in the result with the same cell in every row,
\* whatever the extra columns are named.
C9_ExtraColumnsUnchanged ==
    Succeeded =>
        \A c \in Input.cols \ SchemaColumns :
          /\ c \in Returned.cols
          /\ \A i \in RowsOf(Input) : Returned.rows[i][c] = Input.rows[i][c]

\* C9 (amended): after a successful load, every column of the workbook that
\* is outside the schema and is not named like one of the eight derived
\* columns is in the result with the same cell in every row; a column named
\* like a derived column is overwritten with the derived values.
C9_ExtraColumnsExceptDerived ==
    Succeeded =>
        /\ \A c \in Input.cols \ (SchemaColumns \cup DerivedColumns) :
             /\ c \in Returned.cols
             /\ \A i \in RowsOf(Input) : Returned.rows[i][c] = Input.rows[i][c]
        /\ len(Returned) = len(Input)
        /\ Returned.cols = Input.cols \cup DerivedColumns

\* C9 witness: a successful load of rows with the extra columns Remarks and
\* ABAP Effort Safe.
C9_Witness ==
    /\ Succeeded
    /\ len(Input) >= 2
    /\ {"Remarks", "ABAP Effort Safe"} \subseteq Input.cols
    /\ Returned.rows[2]["Remarks"] = Input.rows[2]["Remarks"]
    /\ Returned.rows[2]["ABAP Effort Safe"] # Input.rows[2]["ABAP Effort Safe"]

\* C10: while main holds the table, after any of the KPI code and the views,
\* in every run, it is the table load_data returned, and it has no
\* ABAP Delivery Variance column: create_abap_analysis adds that column to the
\* filtered copy it charts.
C10_ConsumersNeverWriteBack ==
    df = 1 =>
        /\ heap[df] = Returned
        /\ "ABAP Delivery Variance" \notin heap[df].cols

\* C10 witness: a rerun of main has reached its end after the ABAP view
\* charted a frame that holds the ABAP Delivery Variance column.
C10_Witness ==
    /\ pc = "done"
    /\ runs = MaxRuns
    /\ \E j \in 1 .. Len(shown) :
         /\ shown[j].chart = "ABAP Delivery Variance Distribution (Days)"
         /\ "ABAP Delivery Variance" \in shown[j].cols
         /\ shown[j].n = len(heap[df])

\* C11: whenever the table load_data returned is empty, main has shown the
\* no-data warning and returned: no KPI was computed, no chart was shown and
\* no exception ended the run; and completed_projects / total_projects is
\* only ever evaluated with total_projects > 0.
C11_EmptyMeansNothingToDisplay ==
    /\ (df = 1 /\ empty(Returned)) =>
         /\ pc = "done"
         /\ \E j \in 1 .. Len(reported) : reported[j].kind = "warning"
         /\ kpi = NoKpi
         /\ shown = <<>>
    /\ kpi.evaluated => kpi.total_projects > 0

\* C11 witness: a workbook that opens with every column and no row: load_data
\* reports no error and returns a table with no rows, and main has warned and
\* returned.
C11_Witness ==
    /\ Succeeded
    /\ SchemaColumns \subseteq Returned.cols
    /\ len(Returned) = 0
    /\ pc = "done"
    /\ reported = <<[kind |-> "warning", text |-> "No data loaded"]>>

====
